---- MODULE Spec2Model ----
(***************************************************************************)
(* Model of the interactive script of the XYZ Hotel Lagos landing page     *)
(* (src/js/main.js): the gallery lightbox controller built by              *)
(* initGalleryLightbox, the mobile menu built by initMobileMenu, which     *)
(* shares the page-wide keydown event with the lightbox, and init(), which *)
(* runs the six feature initialisers.                                      *)
(*                                                                         *)
(* Every DOM event is one action: the action runs all the listeners the    *)
(* script registered for that event, in registration order, to completion  *)
(* (the handlers are synchronous).  Indices are 0-based as in the script;  *)
(* imageArray is a TLA+ sequence, so entry i of the script is              *)
(* imageArray[i + 1].                                                      *)
(***************************************************************************)
EXTENDS Integers, Sequences, FiniteSets, TLC

(***************************************************************************)
(* Bounds of the model.                                                    *)
(***************************************************************************)
MaxImages == 3

\* How many of the six initialisers may throw in one page load.
MaxThrowing == 1

\* How many required fields the contact form of a modelled page has.
MaxFields == 2

\* Cap on the submissions awaiting their timer at the same time.
MaxInFlight == 2

\* How many sections with an id a modelled page has at most, how tall a
\* section is at most and how tall the viewport is, in units of 100 px.
MaxSections == 3

MaxSectionHeight == 2

ViewportHeight == 3

\* How many lazy images a modelled page has at most, and how many entries
\* the observer may hold before it delivers them.
MaxLazyImages == 2

MaxQueue == 3

(***************************************************************************)
(* The page content the script reads at initialisation.                    *)
(*                                                                         *)
(* A URL is a record [abs, path]: abs tells whether the text of the src    *)
(* attribute is already an absolute URL, path identifies the resource.     *)
(* path 0 is the empty attribute value of the freshly built lightbox img.  *)
(***************************************************************************)
EmptySrc == [abs |-> TRUE, path |-> 0]

\* What the markup can put around a gallery image: no enclosing figure, a
\* figure without figcaption, a figure whose figcaption is empty, a figure
\* whose figcaption has text.
FigureKinds == {"nofigure", "nofigcaption", "emptycaption", "caption"}

KindOf(k) ==
  CASE k % 4 = 0 -> "caption"
    [] k % 4 = 1 -> "nofigure"
    [] k % 4 = 2 -> "emptycaption"
    [] OTHER     -> "nofigcaption"

AltOf(k) ==
  CASE k = 1 -> "Hotel pool"
    [] k = 2 -> "Deluxe suite"
    [] k = 3 -> "Restaurant"
    [] OTHER -> "Lobby"

CaptionTextOf(k) ==
  CASE k = 1 -> "Rooftop pool at sunset"
    [] k = 2 -> "Deluxe suite interior"
    [] k = 3 -> "Fine dining"
    [] OTHER -> "Main lobby"

\* Gallery image number k (1-based position in document order) of the page
\* variant `shift`: the variants rotate the figure kinds and the relative or
\* absolute form of the src attribute over the positions.
GalleryImage(k, shift) ==
  [ src        |-> [abs |-> (((k + shift) \div 4) % 2 = 0), path |-> k],
    alt        |-> AltOf(k),
    figure     |-> KindOf(k + shift),
    figcaption |-> IF KindOf(k + shift) = "caption" THEN CaptionTextOf(k) ELSE "" ]

Gallery(n, shift) == [k \in 1..n |-> GalleryImage(k, shift)]

(***************************************************************************)
(* Elements that can hold keyboard focus: <<kind, index>>.                 *)
(***************************************************************************)
Body      == <<"body", 0>>
CloseBtn  == <<"closeBtn", 0>>
PrevBtn   == <<"prevBtn", 0>>
NextBtn   == <<"nextBtn", 0>>
Hamburger == <<"hamburger", 0>>
GalleryImg(i) == <<"img", i>>

Keys == {"Escape", "ArrowLeft", "ArrowRight", "Enter", " ", "Tab"}

VARIABLES
  imageArray,          \* Array.from(galleryImages), fixed after initialisation
  currentIndex,        \* let currentIndex
  lightboxActive,      \* lightbox.classList.contains('active')
  lightboxAriaHidden,  \* lightbox aria-hidden attribute
  bodyOverflow,        \* document.body.style.overflow
  lightboxImageSrc,    \* src attribute of .lightbox-image
  lightboxImageAlt,    \* alt attribute of .lightbox-image
  lightboxCaptionText, \* textContent of .lightbox-caption
  activeElement,       \* document.activeElement
  hamburgerExpanded,   \* hamburger aria-expanded attribute
  navActive,           \* nav.classList.contains('active')
  lastEvent,           \* history: the DOM event handled last
  lastOp,              \* history: the controller operation that event ran
  runLen,              \* history: how many times in a row lastOp has run
  runStart,            \* history: currentIndex when that run began
  runOpen,             \* history: whether the viewer was open when it began
  menuBefore,          \* history: whether the nav was active before the last event
  lastTarget,          \* history: index of the gallery image the event hit
  initPc,              \* position of init(): number of the next initialiser
  initialized,         \* the features whose initialiser has returned
  throwing,            \* environment: the initialisers that throw here
  initError,           \* the catch block of init() has logged an error
  lightboxBuilt,       \* the lightbox is in the document, listeners attached
  menuBuilt,           \* the hamburger is in the document, listeners attached
  fields,              \* form.querySelectorAll('input[required], textarea[required]')
  errorElements,       \* the fields f for which the element f.id + '-error' exists
  fieldValue,          \* field.value of each required field
  fieldError,          \* error text, aria-invalid and error class of each field
  inputTimers,         \* the fields whose debounced input handler is pending
  statusText,          \* formStatus.textContent
  statusClass,         \* formStatus.className
  submitBusy,          \* submitButton aria-busy attribute
  submitDisabled,      \* submitButton.disabled
  submitLoading,       \* submitButton.classList.contains('loading')
  inFlight,            \* submit handlers suspended at the await
  lastFormEvent,       \* history: the form event handled last
  outcomes,            \* history: success outcomes since the last accepted submit
  ignored,             \* history: an activation was ignored during the
                       \*   submission that is pending or has just completed
  lastField,           \* history: the field a blur validated last, "" otherwise
  erredInFlight,       \* history: a field showed an error during that submission
  sectionHeights,      \* offsetHeight of each section[id], in units of 100 px
  ariaCurrent,         \* the nav links that carry aria-current="page"
  scrollY,             \* window.scrollY, in units of 100 px
  scrollTarget,        \* scrollY the running smooth scroll heads for, or NoScroll
  navTimer,            \* the debounce timer of updateActiveNav is pending
  lastClicked,         \* history: the nav link clicked last, or NoLink
  userScrolled,        \* history: the user has scrolled since that click
  unloaded,            \* the unload listener has run
  ioSupported,         \* 'IntersectionObserver' in window
  dataSrc,             \* which lazy images have a data-src attribute
  imgSrc,              \* src of each lazy image: "initial" or "deferred"
  imgVisible,          \* which lazy images have the visible class
  observed,            \* the observation targets of imageObserver
  intersecting,        \* the lazy images that intersect the root now
  prevIntersecting,    \* what imageObserver computed last for each target
  ioQueue,             \* the queued entries of imageObserver
  loads,               \* history: how often the script has set the src
  hasIntersected       \* history: the images that have ever intersected

\* The state of init() and what it has built.
initVars == <<initPc, initialized, throwing, initError, lightboxBuilt, menuBuilt>>

\* The submit button as the submit handler writes it.
buttonVars == <<submitBusy, submitDisabled, submitLoading>>

\* The state of the contact form.
formVars == <<fields, errorElements, fieldValue, fieldError, inputTimers,
              statusText, statusClass, buttonVars, inFlight,
              lastFormEvent, outcomes, ignored, lastField, erredInFlight>>

\* The state of the navigation highlighting, the menu aside.
navVars == <<sectionHeights, ariaCurrent, scrollY, scrollTarget, navTimer,
             lastClicked, userScrolled, unloaded>>

\* The state of the lazy images and of their observer.
lazyVars == <<ioSupported, dataSrc, imgSrc, imgVisible, observed, intersecting,
              prevIntersecting, ioQueue, loads, hasIntersected>>

pageVars == <<formVars, navVars, lazyVars>>

\* What the listeners of the lightbox and of the menu never write.
outsideVars == <<initVars, pageVars>>

historyVars == <<lastEvent, lastOp, runLen, runStart, runOpen, menuBefore,
                 lastTarget>>

vars == <<imageArray, currentIndex, lightboxActive, lightboxAriaHidden,
          bodyOverflow, lightboxImageSrc, lightboxImageAlt, lightboxCaptionText,
          activeElement, hamburgerExpanded, navActive,
          lastEvent, lastOp, runLen, runStart, runOpen, menuBefore, lastTarget,
          initPc, initialized, throwing, initError, lightboxBuilt, menuBuilt,
          fields, errorElements, fieldValue, fieldError, inputTimers,
          statusText, statusClass, submitBusy, submitDisabled, submitLoading,
          inFlight, lastFormEvent, outcomes, ignored, lastField, erredInFlight,
          sectionHeights, ariaCurrent, scrollY, scrollTarget, navTimer,
          lastClicked, userScrolled, unloaded,
          ioSupported, dataSrc, imgSrc, imgVisible, observed, intersecting,
          prevIntersecting, ioQueue, loads, hasIntersected>>

\* The state of the viewer that the script itself writes.
viewerVars == <<currentIndex, lightboxActive, lightboxAriaHidden, bodyOverflow,
                lightboxImageSrc, lightboxImageAlt, lightboxCaptionText>>

renderedVars == <<lightboxImageSrc, lightboxImageAlt, lightboxCaptionText>>

menuVars == <<hamburgerExpanded, navActive>>

N == Len(imageArray)

\* The initialisers in the order init() calls them.
Features == <<"menu", "scroll", "gallery", "form", "lazy", "animations">>

\* initPc once init() has returned, normally or through its catch block.
InitDone == Len(Features) + 1

\* lastTarget of an event that does not hit a gallery image.
NoTarget == -1

ValidIndex(i) == i \in 0..(N - 1)

(***************************************************************************)
(* Pure helpers of the script.                                             *)
(***************************************************************************)

\* The src IDL attribute of an img: the src content attribute resolved
\* against the document URL.
ResolveURL(u) == IF u.path = 0 THEN u ELSE [abs |-> TRUE, path |-> u.path]

\* Mutant of CaptionOf: caption && caption.textContent ? ... : img.alt, which
\* falls back to the alt text for an empty figcaption.
CaptionOfNonEmpty(img) ==
  IF img.figure = "caption" /\ img.figcaption # "" THEN img.figcaption ELSE img.alt

\* caption ? caption.textContent : img.alt, with
\* caption = figure ? figure.querySelector('figcaption') : null
CaptionOf(img) ==
  IF img.figure \in {"emptycaption", "caption"} THEN img.figcaption ELSE img.alt

\* Mutants of NextIndex: a modulus one too large, and clamping at the end.
NextIndexLateWrap(i, n) == (i + 1) % (n + 1)

NextIndexClamp(i, n) == IF i + 1 < n THEN i + 1 ELSE i

\* (currentIndex + 1) % imageArray.length
NextIndex(i, n) == (i + 1) % n

\* Mutant of PrevIndex: (currentIndex - 1) % length, whose JavaScript
\* remainder is -1 at index 0.
PrevIndexNoOffset(i, n) == IF i - 1 < 0 THEN -1 ELSE (i - 1) % n

\* (currentIndex - 1 + imageArray.length) % imageArray.length
PrevIndex(i, n) == (i - 1 + n) % n

(***************************************************************************)
(* History bookkeeping: which operation ran, and for how long in a row.    *)
(* A run is restarted once it has reached the gallery length.              *)
(***************************************************************************)
Track(ev, op) ==
  /\ lastEvent' = ev
  /\ lastOp' = op
  /\ menuBefore' = navActive
  /\ IF op = lastOp /\ op # "noop" /\ runLen < N
     THEN /\ runLen' = runLen + 1
          /\ UNCHANGED <<runStart, runOpen>>
     ELSE /\ runLen' = 1
          /\ runStart' = currentIndex
          /\ runOpen' = lightboxActive

(***************************************************************************)
(* Operations of the lightbox controller.                                  *)
(***************************************************************************)

\* Mutant of showLightbox: the closeBtn.focus() call is missing.
showLightboxNoFocus(index) ==
  /\ currentIndex' = index
  /\ IF ValidIndex(index)
     THEN LET img == imageArray[index + 1] IN
          /\ lightboxImageSrc' = ResolveURL(img.src)
          /\ lightboxImageAlt' = img.alt
          /\ lightboxCaptionText' = CaptionOf(img)
          /\ lightboxActive' = TRUE
          /\ lightboxAriaHidden' = "false"
          /\ bodyOverflow' = "hidden"
          /\ UNCHANGED activeElement
     ELSE UNCHANGED <<renderedVars, lightboxActive, lightboxAriaHidden,
                      bodyOverflow, activeElement>>

\* showLightbox(index).  An index outside the array makes img undefined and
\* img.closest throws after currentIndex has been assigned.
showLightbox(index) ==
  /\ currentIndex' = index
  /\ IF ValidIndex(index)
     THEN LET img == imageArray[index + 1] IN
          /\ lightboxImageSrc' = ResolveURL(img.src)
          /\ lightboxImageAlt' = img.alt
          /\ lightboxCaptionText' = CaptionOf(img)
          /\ lightboxActive' = TRUE
          /\ lightboxAriaHidden' = "false"
          /\ bodyOverflow' = "hidden"
          /\ activeElement' = CloseBtn
     ELSE UNCHANGED <<renderedVars, lightboxActive, lightboxAriaHidden,
                      bodyOverflow, activeElement>>

\* Mutants of closeLightbox: one that also empties the rendered image, one
\* that toggles the active class instead of removing it, one that leaves the
\* page scroll locked.
closeLightboxClears ==
  /\ lightboxActive' = FALSE
  /\ lightboxAriaHidden' = "true"
  /\ bodyOverflow' = ""
  /\ lightboxImageSrc' = EmptySrc
  /\ lightboxImageAlt' = ""
  /\ lightboxCaptionText' = ""
  /\ UNCHANGED <<currentIndex, activeElement>>

closeLightboxToggle ==
  /\ lightboxActive' = ~lightboxActive
  /\ lightboxAriaHidden' = (IF lightboxActive THEN "true" ELSE "false")
  /\ bodyOverflow' = (IF lightboxActive THEN "" ELSE "hidden")
  /\ UNCHANGED <<currentIndex, renderedVars, activeElement>>

closeLightboxKeepsScrollLock ==
  /\ lightboxActive' = FALSE
  /\ lightboxAriaHidden' = "true"
  /\ UNCHANGED <<bodyOverflow, currentIndex, renderedVars, activeElement>>

\* closeLightbox()
closeLightbox ==
  /\ lightboxActive' = FALSE
  /\ lightboxAriaHidden' = "true"
  /\ bodyOverflow' = ""
  /\ UNCHANGED <<currentIndex, renderedVars, activeElement>>

\* Mutants of showNext: one that drops a call that follows another call
\* (coalescing of repeated input), one that advances currentIndex without
\* rendering.
showNextCoalesced ==
  IF lastOp = "next"
  THEN UNCHANGED <<viewerVars, activeElement>>
  ELSE showLightbox(NextIndex(currentIndex, N))

showNextNoRender ==
  /\ currentIndex' = NextIndex(currentIndex, N)
  /\ UNCHANGED <<renderedVars, lightboxActive, lightboxAriaHidden,
                 bodyOverflow, activeElement>>

\* showNext()
showNext == showLightbox(NextIndex(currentIndex, N))

\* Mutant of showPrev: the render leaves the focus where it was.
showPrevKeepsFocus == showLightboxNoFocus(PrevIndex(currentIndex, N))

\* showPrev()
showPrev == showLightbox(PrevIndex(currentIndex, N))

\* No listener of the lightbox runs.
lightboxIdle == UNCHANGED <<viewerVars, activeElement>>

(***************************************************************************)
(* Initial state: the page after init() has run on a page with a nav and   *)
(* at least one gallery image.                                             *)
(***************************************************************************)
(***************************************************************************)
(* The contact form.                                                       *)
(*                                                                         *)
(* The text of a field is a record [len, pad, wf]: len is the length of    *)
(* the text without surrounding white space, pad tells whether the text    *)
(* has surrounding white space, wf whether the trimmed text matches the    *)
(* pattern of the field (EMAIL_PATTERN, PHONE_PATTERN).                    *)
(***************************************************************************)
NAME_MIN_LENGTH == 2
MESSAGE_MIN_LENGTH == 10
MESSAGE_MAX_LENGTH == 1000

\* The required fields a page can have, in document order.
FieldOrder == <<"name", "email", "phone", "message">>

FieldNames == {FieldOrder[k] : k \in 1..Len(FieldOrder)}

OrderOf(f) == CHOOSE k \in 1..Len(FieldOrder) : FieldOrder[k] = f

\* The empty text, the value form.reset() gives every field.
EmptyText == [len |-> 0, pad |-> FALSE, wf |-> FALSE]

\* The texts the user can put into field f.
TextsOf(f) ==
  CASE f = "name" ->
         {EmptyText, [len |-> 1, pad |-> FALSE, wf |-> FALSE],
          [len |-> 2, pad |-> TRUE, wf |-> FALSE]}
    [] f = "message" ->
         {EmptyText, [len |-> 9, pad |-> FALSE, wf |-> FALSE],
          [len |-> 10, pad |-> TRUE, wf |-> FALSE]}
    [] OTHER ->
         {EmptyText, [len |-> 7, pad |-> FALSE, wf |-> FALSE],
          [len |-> 7, pad |-> TRUE, wf |-> TRUE]}

\* field.value.trim()
Trim(text) == [text EXCEPT !.pad = FALSE]

\* CONFIG.VALIDATION.EMAIL_PATTERN.test(email)
isValidEmail(text) == text.wf /\ ~text.pad /\ text.len > 0

\* CONFIG.VALIDATION.PHONE_PATTERN.test(phone)
isValidPhone(text) == text.wf /\ ~text.pad /\ text.len > 0

Valid == [isValid |-> TRUE, errorMessage |-> ""]

Invalid(msg) == [isValid |-> FALSE, errorMessage |-> msg]

\* Mutant of FormatCheck: a message of exactly MESSAGE_MAX_LENGTH characters
\* is rejected.
FormatCheckMaxExclusive(f, value) ==
  CASE f = "name" ->
         IF value.len < NAME_MIN_LENGTH
         THEN Invalid("Name must be at least 2 characters") ELSE Valid
    [] f = "email" ->
         IF ~isValidEmail(value)
         THEN Invalid("Please enter a valid email address") ELSE Valid
    [] f = "phone" ->
         IF ~isValidPhone(value)
         THEN Invalid("Please enter a valid phone number") ELSE Valid
    [] f = "message" ->
         IF value.len < MESSAGE_MIN_LENGTH
         THEN Invalid("Message must be at least 10 characters")
         ELSE IF value.len >= MESSAGE_MAX_LENGTH
              THEN Invalid("Message must not exceed 1000 characters") ELSE Valid
    [] OTHER -> Valid

\* The switch of validateField on field.name.
FormatCheck(f, value) ==
  CASE f = "name" ->
         IF value.len < NAME_MIN_LENGTH
         THEN Invalid("Name must be at least 2 characters") ELSE Valid
    [] f = "email" ->
         IF ~isValidEmail(value)
         THEN Invalid("Please enter a valid email address") ELSE Valid
    [] f = "phone" ->
         IF ~isValidPhone(value)
         THEN Invalid("Please enter a valid phone number") ELSE Valid
    [] f = "message" ->
         IF value.len < MESSAGE_MIN_LENGTH
         THEN Invalid("Message must be at least 10 characters")
         ELSE IF value.len > MESSAGE_MAX_LENGTH
              THEN Invalid("Message must not exceed 1000 characters") ELSE Valid
    [] OTHER -> Valid

\* isValid and errorMessage of validateField for field f holding `text`; every
\* field of `fields` has the required attribute.
Validation(f, text) ==
  LET value == Trim(text) IN
    IF value.len = 0 THEN Invalid("This field is required")
    ELSE FormatCheck(f, value)

\* The error display of a field: text of its error element, aria-invalid
\* ("none" while the attribute is absent), error class.
NoError == [text |-> "", aria |-> "none", cls |-> FALSE]

\* clearFieldError(field) / showFieldError(field, message): both do nothing
\* when the error element is not found.
clearFieldError(f, err) ==
  IF f \in errorElements THEN [text |-> "", aria |-> "false", cls |-> FALSE] ELSE err

showFieldError(f, err, message) ==
  IF f \in errorElements THEN [text |-> message, aria |-> "true", cls |-> TRUE] ELSE err

\* The error display of field f after validateField(field).
validateField(f) ==
  IF Validation(f, fieldValue[f]).isValid
  THEN clearFieldError(f, fieldError[f])
  ELSE showFieldError(f, fieldError[f], Validation(f, fieldValue[f]).errorMessage)

\* Mutant of isFormValid: isFormValid = validateField(field), which keeps the
\* result of the last field only.
isFormValidLastOnly ==
  \A f \in fields :
    (\A g \in fields : OrderOf(g) <= OrderOf(f)) => Validation(f, fieldValue[f]).isValid

\* isFormValid after the forEach of the submit handler.
isFormValid == \A f \in fields : Validation(f, fieldValue[f]).isValid

\* Mutants of ShowLoading and HideLoading: the button is not disabled; the
\* aria-busy attribute is not reset.
ShowLoadingNotDisabled == [busy |-> "true", disabled |-> FALSE, loading |-> TRUE]

HideLoadingKeepsBusy == [busy |-> "true", disabled |-> FALSE, loading |-> FALSE]

\* The loading state the submit handler gives the button, and the state its
\* finally block gives it.
ShowLoading == [busy |-> "true", disabled |-> TRUE, loading |-> TRUE]

HideLoading == [busy |-> "false", disabled |-> FALSE, loading |-> FALSE]

\* Mutant of formReset: the fields keep their values.
formResetKeepsValues == fieldValue

\* form.reset(): every field back to its default value, the empty text.
formReset == [f \in fields |-> EmptyText]

StatusInvalid == "Please correct the errors above"

StatusSuccess == "Thank you! Your message has been sent successfully."

\* The form of a page whose required fields are F and whose error elements
\* exist for the fields E, before any event.
FormFresh(F, E) ==
  /\ fields = F
  /\ errorElements = E
  /\ fieldValue = [f \in F |-> EmptyText]
  /\ fieldError = [f \in F |-> NoError]
  /\ inputTimers = {}
  /\ statusText = ""
  /\ statusClass = "form-status"
  /\ submitBusy = "none"
  /\ submitDisabled = FALSE
  /\ submitLoading = FALSE
  /\ inFlight = 0
  /\ lastFormEvent = "init"
  /\ outcomes = 0
  /\ ignored = FALSE
  /\ lastField = ""
  /\ erredInFlight = FALSE

(***************************************************************************)
(* Navigation highlighting (initSmoothScroll).                             *)
(*                                                                         *)
(* Lengths are in units of 100 px, the offset updateActiveNav adds to      *)
(* window.scrollY.  The sections with an id follow each other from the     *)
(* top of the document; section k is the target of nav link k, and nav     *)
(* link 0 has an href no element matches.                                  *)
(***************************************************************************)
NoScroll == -1

NoLink == -1

\* section.offsetTop
SectionTop(k) ==
  LET RECURSIVE Sum(_)
      Sum(j) == IF j = 0 THEN 0 ELSE sectionHeights[j] + Sum(j - 1)
  IN Sum(k - 1)

Sections == 1..Len(sectionHeights)

\* The links of 'nav a[href^="#"]'.
NavLinks == 0..Len(sectionHeights)

DocumentHeight == SectionTop(Len(sectionHeights) + 1)

\* The largest window.scrollY the document allows.
MaxScroll ==
  IF DocumentHeight > ViewportHeight THEN DocumentHeight - ViewportHeight ELSE 0

\* Where scrollIntoView({block: 'start'}) on section k ends.
ScrollDestination(k) ==
  IF SectionTop(k) < MaxScroll THEN SectionTop(k) ELSE MaxScroll

\* scrollPosition >= sectionTop && scrollPosition < sectionTop + sectionHeight
SectionContains(k, scrollPosition) ==
  /\ scrollPosition >= SectionTop(k)
  /\ scrollPosition < SectionTop(k) + sectionHeights[k]

\* Part of section k is inside the viewport.
InViewport(k) ==
  /\ SectionTop(k) < scrollY + ViewportHeight
  /\ SectionTop(k) + sectionHeights[k] > scrollY

\* The navigation of a page whose sections have the heights H and whose
\* markup gives the links A aria-current, before any event.
NavFresh(H, A) ==
  /\ sectionHeights = H
  /\ ariaCurrent = A
  /\ scrollY = 0
  /\ scrollTarget = NoScroll
  /\ navTimer = FALSE
  /\ lastClicked = NoLink
  /\ userScrolled = FALSE
  /\ unloaded = FALSE

(***************************************************************************)
(* Lazy images (initLazyLoading).                                          *)
(***************************************************************************)

\* The lazy images of a page: image i has a data-src attribute iff D[i]; the
\* images I intersect the root when the page is loaded; `supported` tells
\* whether the browser has IntersectionObserver.
LazyFresh(D, I, supported) ==
  /\ ioSupported = supported
  /\ dataSrc = D
  /\ imgSrc = [i \in DOMAIN D |-> "initial"]
  /\ imgVisible = [i \in DOMAIN D |-> FALSE]
  /\ observed = IF supported THEN DOMAIN D ELSE {}
  /\ intersecting = I
  /\ prevIntersecting = [i \in DOMAIN D |-> "unknown"]
  /\ ioQueue = <<>>
  /\ loads = [i \in DOMAIN D |-> 0]
  /\ hasIntersected = I

\* The lightbox as initGalleryLightbox builds it, the menu as initMobileMenu
\* builds it, and an empty history.
FreshWidgets ==
  /\ currentIndex = 0
  /\ lightboxActive = FALSE
  /\ lightboxAriaHidden = "true"
  /\ bodyOverflow = ""
  /\ lightboxImageSrc = EmptySrc
  /\ lightboxImageAlt = ""
  /\ lightboxCaptionText = ""
  /\ activeElement = Body
  /\ hamburgerExpanded = "false"
  /\ navActive = FALSE
  /\ lastEvent = "init"
  /\ lastOp = "noop"
  /\ runLen = 1
  /\ runStart = 0
  /\ runOpen = FALSE
  /\ menuBefore = FALSE
  /\ lastTarget = NoTarget

\* init() has run all six initialisers and none has thrown.
InitSucceeded ==
  /\ initPc = InitDone
  /\ initialized = {Features[k] : k \in 1..Len(Features)}
  /\ throwing = {}
  /\ initError = FALSE
  /\ lightboxBuilt = TRUE
  /\ menuBuilt = TRUE

Init ==
  /\ \E n \in 1..MaxImages, shift \in 0..7 : imageArray = Gallery(n, shift)
  /\ FreshWidgets
  /\ InitSucceeded
  /\ FormFresh({}, {})
  /\ NavFresh(<<>>, {})
  /\ LazyFresh(<<>>, {}, FALSE)

(***************************************************************************)
(* Events.                                                                 *)
(***************************************************************************)

\* click on gallery image i
ImageClick ==
  \E i \in 0..(N - 1) :
    /\ initPc = InitDone /\ lightboxBuilt
    /\ showLightbox(i)
    /\ Track("imgClick", "open")
    /\ lastTarget' = i
    /\ UNCHANGED <<imageArray, menuVars, outsideVars>>

\* click on .lightbox-close
CloseClick ==
  /\ initPc = InitDone /\ lightboxBuilt
  /\ closeLightbox
  /\ Track("closeClick", "close")
  /\ lastTarget' = NoTarget
  /\ UNCHANGED <<imageArray, menuVars, outsideVars>>

\* click on .lightbox-overlay
OverlayClick ==
  /\ initPc = InitDone /\ lightboxBuilt
  /\ closeLightbox
  /\ Track("overlayClick", "close")
  /\ lastTarget' = NoTarget
  /\ UNCHANGED <<imageArray, menuVars, outsideVars>>

\* click on .lightbox-prev
PrevClick ==
  /\ initPc = InitDone /\ lightboxBuilt
  /\ showPrev
  /\ Track("prevClick", "prev")
  /\ lastTarget' = NoTarget
  /\ UNCHANGED <<imageArray, menuVars, outsideVars>>

\* click on .lightbox-next
NextClick ==
  /\ initPc = InitDone /\ lightboxBuilt
  /\ showNext
  /\ Track("nextClick", "next")
  /\ lastTarget' = NoTarget
  /\ UNCHANGED <<imageArray, menuVars, outsideVars>>

\* Mutant of menuKeydown: the menu stays open while the lightbox is open.
menuKeydownYields(key) ==
  IF key = "Escape" /\ navActive /\ ~lightboxActive
  THEN /\ hamburgerExpanded' = "false"
       /\ navActive' = FALSE
  ELSE UNCHANGED menuVars

\* The keydown listener of the mobile menu on document.
menuKeydown(key) ==
  IF key = "Escape" /\ navActive
  THEN /\ hamburgerExpanded' = "false"
       /\ navActive' = FALSE
  ELSE UNCHANGED menuVars

\* Mutant of lightboxKeyOp: the check of the active class is missing.
lightboxKeyOpUnguarded(key) ==
  CASE key = "Escape"     -> "close"
    [] key = "ArrowLeft"  -> "prev"
    [] key = "ArrowRight" -> "next"
    [] OTHER              -> "noop"

\* Mutant of lightboxKeyOp: the two arrow keys are exchanged.
lightboxKeyOpSwapped(key) ==
  IF lightboxActive
  THEN CASE key = "Escape"     -> "close"
         [] key = "ArrowLeft"  -> "next"
         [] key = "ArrowRight" -> "prev"
         [] OTHER              -> "noop"
  ELSE "noop"

\* The operation the keydown listener of the lightbox on document selects.
lightboxKeyOp(key) ==
  IF lightboxActive
  THEN CASE key = "Escape"     -> "close"
         [] key = "ArrowLeft"  -> "prev"
         [] key = "ArrowRight" -> "next"
         [] OTHER              -> "noop"
  ELSE "noop"

\* The keydown listener of the lightbox on document.
lightboxKeydown(key) ==
  CASE lightboxKeyOp(key) = "close" -> closeLightbox
    [] lightboxKeyOp(key) = "prev"  -> showPrev
    [] lightboxKeyOp(key) = "next"  -> showNext
    [] OTHER                        -> lightboxIdle

\* keydown with the focus on gallery image i: the listener of the image runs,
\* then the event bubbles to the two listeners on document.  For Enter and
\* Space the lightbox is active when the document listener runs, and that
\* listener has no case for these keys.
ImageKeyDown ==
  \E i \in 0..(N - 1), key \in Keys :
    /\ initPc = InitDone /\ lightboxBuilt
    /\ activeElement = GalleryImg(i)
    /\ lastTarget' = i
    /\ IF key \in {"Enter", " "}
       THEN /\ showLightbox(i)
            /\ Track(IF key = "Enter" THEN "imgEnter" ELSE "imgSpace", "open")
       ELSE /\ lightboxKeydown(key)
            /\ Track(key, lightboxKeyOp(key))
    /\ menuKeydown(key)
    /\ UNCHANGED <<imageArray, outsideVars>>

\* keydown with the focus anywhere else: only the listeners on document run.
KeyDown ==
  \E key \in Keys :
    /\ initPc = InitDone
    /\ activeElement[1] # "img"
    /\ menuKeydown(key)
    /\ lightboxKeydown(key)
    /\ Track(key, lightboxKeyOp(key))
    /\ lastTarget' = NoTarget
    /\ UNCHANGED <<imageArray, outsideVars>>

\* click on the hamburger button
HamburgerClick ==
  /\ initPc = InitDone /\ menuBuilt
  /\ hamburgerExpanded' = (IF hamburgerExpanded = "true" THEN "false" ELSE "true")
  /\ navActive' = ~navActive
  /\ Track("hamburgerClick", "noop")
  /\ lastTarget' = NoTarget
  /\ UNCHANGED <<imageArray, viewerVars, activeElement, outsideVars>>

\* The user (Tab, pointer) or the browser moves the focus; the script has no
\* focus listener.
FocusTargets ==
  {Body}
    \cup (IF menuBuilt THEN {Hamburger} ELSE {})
    \cup (IF lightboxBuilt
          THEN {CloseBtn, PrevBtn, NextBtn} \cup {GalleryImg(i) : i \in 0..(N - 1)}
          ELSE {})

MoveFocus ==
  \E el \in FocusTargets :
    /\ initPc = InitDone
    /\ el # activeElement
    /\ activeElement' = el
    /\ Track("focus", "noop")
    /\ lastTarget' = NoTarget
    /\ UNCHANGED <<imageArray, viewerVars, menuVars, outsideVars>>

Next ==
  \/ ImageClick
  \/ CloseClick
  \/ OverlayClick
  \/ PrevClick
  \/ NextClick
  \/ ImageKeyDown
  \/ KeyDown
  \/ HamburgerClick
  \/ MoveFocus

Spec == Init /\ [][Next]_vars

(***************************************************************************)
(* init(): the six initialisers run in order inside one try block.  An     *)
(* initialiser that throws (an API it uses is missing in the browser)      *)
(* leaves its feature unbuilt and passes control to the catch block.       *)
(***************************************************************************)

\* Mutant of GalleryActivates: the early return for an empty gallery is
\* missing.
GalleryActivatesAlways(n) == TRUE

\* if (galleryImages.length === 0) return;
GalleryActivates(n) == n # 0

\* The page before init() runs: any number of gallery images, nothing built.
PageInit ==
  /\ \E n \in 0..MaxImages : imageArray = (IF n = 0 THEN <<>> ELSE Gallery(n, 0))
  /\ FreshWidgets
  /\ FormFresh({}, {})
  /\ NavFresh(<<>>, {})
  /\ LazyFresh(<<>>, {}, FALSE)
  /\ initPc = 1
  /\ initialized = {}
  /\ throwing \in {T \in SUBSET {Features[k] : k \in 1..Len(Features)} :
                     Cardinality(T) <= MaxThrowing}
  /\ initError = FALSE
  /\ lightboxBuilt = FALSE
  /\ menuBuilt = FALSE

\* The catch block of init().
initCatch ==
  /\ initError' = TRUE
  /\ initPc' = InitDone
  /\ UNCHANGED <<initialized, lightboxBuilt, menuBuilt>>

\* Initialiser number k returns normally.
initReturn(k) ==
  /\ initialized' = initialized \cup {Features[k]}
  /\ initPc' = k + 1
  /\ UNCHANGED initError

widgetVars == <<imageArray, viewerVars, activeElement, menuVars, historyVars>>

\* initMobileMenu()
InitMobileMenu ==
  /\ initPc = 1
  /\ IF Features[1] \in throwing
     THEN initCatch /\ UNCHANGED <<menuVars>>
     ELSE /\ initReturn(1)
          /\ menuBuilt' = TRUE
          /\ hamburgerExpanded' = "false"
          /\ UNCHANGED <<navActive, lightboxBuilt>>
  /\ UNCHANGED <<imageArray, viewerVars, activeElement, historyVars, throwing,
                 pageVars>>

\* initSmoothScroll()
InitSmoothScroll ==
  /\ initPc = 2
  /\ IF Features[2] \in throwing
     THEN initCatch
     ELSE initReturn(2) /\ UNCHANGED <<lightboxBuilt, menuBuilt>>
  /\ UNCHANGED <<widgetVars, throwing, pageVars>>

\* initGalleryLightbox()
InitGalleryLightbox ==
  /\ initPc = 3
  /\ IF Features[3] \in throwing
     THEN initCatch /\ UNCHANGED <<currentIndex, lightboxAriaHidden, renderedVars>>
     ELSE /\ initReturn(3)
          /\ lightboxBuilt' = GalleryActivates(N)
          /\ currentIndex' = 0
          /\ lightboxAriaHidden' = "true"
          /\ lightboxImageSrc' = EmptySrc
          /\ lightboxImageAlt' = ""
          /\ lightboxCaptionText' = ""
          /\ UNCHANGED menuBuilt
  /\ UNCHANGED <<imageArray, lightboxActive, bodyOverflow, activeElement,
                 menuVars, historyVars, throwing, pageVars>>

\* initFormValidation()
InitFormValidation ==
  /\ initPc = 4
  /\ IF Features[4] \in throwing
     THEN initCatch
     ELSE initReturn(4) /\ UNCHANGED <<lightboxBuilt, menuBuilt>>
  /\ UNCHANGED <<widgetVars, throwing, pageVars>>

\* initLazyLoading()
InitLazyLoading ==
  /\ initPc = 5
  /\ IF Features[5] \in throwing
     THEN initCatch
     ELSE initReturn(5) /\ UNCHANGED <<lightboxBuilt, menuBuilt>>
  /\ UNCHANGED <<widgetVars, throwing, pageVars>>

\* initScrollAnimations()
InitScrollAnimations ==
  /\ initPc = 6
  /\ IF Features[6] \in throwing
     THEN initCatch
     ELSE initReturn(6) /\ UNCHANGED <<lightboxBuilt, menuBuilt>>
  /\ UNCHANGED <<widgetVars, throwing, pageVars>>

NextInit ==
  \/ InitMobileMenu
  \/ InitSmoothScroll
  \/ InitGalleryLightbox
  \/ InitFormValidation
  \/ InitLazyLoading
  \/ InitScrollAnimations
  \/ ImageClick
  \/ CloseClick
  \/ OverlayClick
  \/ PrevClick
  \/ NextClick
  \/ ImageKeyDown
  \/ KeyDown
  \/ HamburgerClick
  \/ MoveFocus

\* The page from its load on: init(), then the events.
SpecInit == PageInit /\ [][NextInit]_vars

(***************************************************************************)
(* Events of the contact form (initFormValidation).                        *)
(***************************************************************************)

\* The page with its contact form, after init() has run.
FormInit ==
  /\ imageArray = Gallery(1, 0)
  /\ FreshWidgets
  /\ InitSucceeded
  /\ NavFresh(<<>>, {})
  /\ LazyFresh(<<>>, {}, FALSE)
  /\ \E F \in SUBSET FieldNames :
       /\ Cardinality(F) \in 1..MaxFields
       /\ \E E \in {F, {}} : FormFresh(F, E)

notFormVars == <<widgetVars, initVars, navVars, lazyVars>>

\* A history flag of the pending submission: dropped by the first event that
\* finds no submission pending.
During(flag) == inFlight > 0 /\ flag

\* The user edits field f: the input listener restarts the debounce timer of
\* the field.
FieldInput ==
  \E f \in fields : \E text \in TextsOf(f) :
    /\ text # fieldValue[f]
    /\ fieldValue' = [fieldValue EXCEPT ![f] = text]
    /\ inputTimers' = inputTimers \cup {f}
    /\ lastFormEvent' = "input"
    /\ lastField' = ""
    /\ ignored' = During(ignored)
    /\ erredInFlight' = During(erredInFlight)
    /\ UNCHANGED <<fields, errorElements, fieldError, statusText, statusClass,
                   buttonVars, inFlight, outcomes, notFormVars>>

\* The debounce timer of field f fires: the field is validated again if it
\* carries the error class.
DebounceFire ==
  \E f \in inputTimers :
    /\ inputTimers' = inputTimers \ {f}
    /\ fieldError' = [fieldError EXCEPT
                        ![f] = IF fieldError[f].cls THEN validateField(f) ELSE @]
    /\ lastFormEvent' = "input"
    /\ lastField' = ""
    /\ ignored' = During(ignored)
    /\ erredInFlight' = During(erredInFlight \/ fieldError'[f].cls)
    /\ UNCHANGED <<fields, errorElements, fieldValue, statusText, statusClass,
                   buttonVars, inFlight, outcomes, notFormVars>>

\* blur of field f
FieldBlur ==
  \E f \in fields :
    /\ fieldError' = [fieldError EXCEPT ![f] = validateField(f)]
    /\ lastFormEvent' = "blur"
    /\ lastField' = f
    /\ ignored' = During(ignored)
    /\ erredInFlight' = During(erredInFlight \/ fieldError'[f].cls)
    /\ UNCHANGED <<fields, errorElements, fieldValue, inputTimers, statusText,
                   statusClass, buttonVars, inFlight, outcomes, notFormVars>>

\* The user activates the submit button (click, or Enter in a field).  A
\* disabled submit button fires no submit event.  Otherwise the submit
\* handler runs up to its return or up to its await.
SubmitClick ==
  IF submitDisabled
  THEN /\ lastFormEvent' = "submitBlocked"
       /\ ignored' = TRUE
       /\ lastField' = ""
       /\ UNCHANGED <<fields, errorElements, fieldValue, fieldError, inputTimers,
                      statusText, statusClass, buttonVars, inFlight, outcomes,
                      erredInFlight, notFormVars>>
  ELSE /\ fieldError' = [f \in fields |-> validateField(f)]
       /\ lastFormEvent' = "submit"
       /\ lastField' = ""
       /\ IF ~isFormValid
          THEN /\ statusText' = StatusInvalid
               /\ statusClass' = "form-status error"
               /\ ignored' = During(ignored)
               /\ erredInFlight' = During(erredInFlight)
               /\ UNCHANGED <<buttonVars, inFlight, outcomes>>
          ELSE /\ inFlight < MaxInFlight
               /\ submitBusy' = ShowLoading.busy
               /\ submitDisabled' = ShowLoading.disabled
               /\ submitLoading' = ShowLoading.loading
               /\ inFlight' = inFlight + 1
               /\ outcomes' = 0
               /\ ignored' = FALSE
               /\ erredInFlight' = FALSE
               /\ UNCHANGED <<statusText, statusClass>>
       /\ UNCHANGED <<fields, errorElements, fieldValue, inputTimers, notFormVars>>

\* The 1500 ms timer of a suspended submit handler fires: the handler resumes
\* after the await, reports success, resets the form and runs its finally
\* block.
SubmitComplete ==
  /\ inFlight > 0
  /\ inFlight' = inFlight - 1
  /\ statusText' = StatusSuccess
  /\ statusClass' = "form-status success"
  /\ fieldValue' = formReset
  /\ fieldError' = [f \in fields |-> clearFieldError(f, fieldError[f])]
  /\ submitBusy' = HideLoading.busy
  /\ submitDisabled' = HideLoading.disabled
  /\ submitLoading' = HideLoading.loading
  /\ outcomes' = outcomes + 1
  /\ lastFormEvent' = "complete"
  /\ lastField' = ""
  /\ UNCHANGED <<fields, errorElements, inputTimers, ignored, erredInFlight,
                 notFormVars>>

NextForm ==
  \/ FieldInput
  \/ DebounceFire
  \/ FieldBlur
  \/ SubmitClick
  \/ SubmitComplete

SpecForm == FormInit /\ [][NextForm]_vars

\* The event loop runs the callback of setTimeout once its 1500 ms are over.
SpecFormFair == SpecForm /\ WF_vars(SubmitComplete)

(***************************************************************************)
(* The message field alone, with texts around the bounds of its length.    *)
(***************************************************************************)

\* The lengths of the trimmed message the user tries.
MessageLengths ==
  0..(MESSAGE_MIN_LENGTH + 1)
    \cup (MESSAGE_MAX_LENGTH - 1)..(MESSAGE_MAX_LENGTH + 1)

MessageTexts ==
  {[len |-> L, pad |-> p, wf |-> FALSE] : L \in MessageLengths, p \in BOOLEAN}

\* A page whose form has the message field as its only required field.
MessageInit ==
  /\ imageArray = Gallery(1, 0)
  /\ FreshWidgets
  /\ InitSucceeded
  /\ NavFresh(<<>>, {})
  /\ LazyFresh(<<>>, {}, FALSE)
  /\ \E E \in {{"message"}, {}} : FormFresh({"message"}, E)

\* The user replaces the text of the message field.
MessageInput ==
  \E text \in MessageTexts :
    /\ text # fieldValue["message"]
    /\ fieldValue' = [fieldValue EXCEPT !["message"] = text]
    /\ inputTimers' = inputTimers \cup {"message"}
    /\ lastFormEvent' = "input"
    /\ lastField' = ""
    /\ ignored' = During(ignored)
    /\ erredInFlight' = During(erredInFlight)
    /\ UNCHANGED <<fields, errorElements, fieldError, statusText, statusClass,
                   buttonVars, inFlight, outcomes, notFormVars>>

NextMessage ==
  \/ MessageInput
  \/ DebounceFire
  \/ FieldBlur

SpecMessage == MessageInit /\ [][NextMessage]_vars

(***************************************************************************)
(* Events of the navigation (initMobileMenu, initSmoothScroll, unload).    *)
(***************************************************************************)

\* The page with its navigation, after init() has run.
NavInit ==
  /\ imageArray = Gallery(1, 0)
  /\ FreshWidgets
  /\ InitSucceeded
  /\ FormFresh({}, {})
  /\ LazyFresh(<<>>, {}, FALSE)
  /\ \E n \in 1..MaxSections :
       \E H \in [1..n -> 1..MaxSectionHeight], A \in {{}, {1}} : NavFresh(H, A)

notNavVars == <<imageArray, viewerVars, activeElement, initVars, formVars, lazyVars>>

\* window.scrollY + 100, in units of 100 px
ScrollOffset == 1

\* Mutant of menuLinkClick: the active class stays on the nav.
menuLinkClickKeepsClass ==
  /\ hamburgerExpanded' = "false"
  /\ navActive' = navActive

\* The click listener initMobileMenu puts on every link of the nav.
menuLinkClick ==
  /\ hamburgerExpanded' = "false"
  /\ navActive' = FALSE

\* Mutant of clickCurrent: aria-current is not removed from the other links.
clickCurrentKeepsOthers(l) == ariaCurrent \cup {l}

\* The links with aria-current after the click listener of link l has found
\* its target section.
clickCurrent(l) == {l}

\* The links with aria-current after updateActiveNav has run: the link of the
\* last section that contains the scroll position, if there is one.
updateActiveNav ==
  LET scrollPosition == scrollY + ScrollOffset
      hit == {k \in Sections : SectionContains(k, scrollPosition)}
  IN IF hit = {} THEN ariaCurrent
     ELSE {k \in hit : \A j \in hit : j <= k}

\* click on nav link l: the listener of initMobileMenu closes the menu, the
\* listener of initSmoothScroll starts the smooth scroll and moves
\* aria-current if the target section exists.
NavLinkClick ==
  \E l \in NavLinks :
    /\ initPc = InitDone /\ menuBuilt /\ ~unloaded
    /\ menuLinkClick
    /\ IF l \in Sections
       THEN /\ scrollTarget' = IF ScrollDestination(l) = scrollY
                               THEN NoScroll ELSE ScrollDestination(l)
            /\ ariaCurrent' = clickCurrent(l)
       ELSE UNCHANGED <<scrollTarget, ariaCurrent>>
    /\ lastClicked' = l
    /\ userScrolled' = FALSE
    /\ Track("navLinkClick", "noop")
    /\ lastTarget' = NoTarget
    /\ UNCHANGED <<sectionHeights, scrollY, navTimer, unloaded, notNavVars>>

\* One frame of the smooth scroll: the window moves towards the target and a
\* scroll event restarts the debounce timer.
SmoothScrollStep ==
  /\ ~unloaded
  /\ scrollTarget # NoScroll
  /\ scrollY' = IF scrollTarget > scrollY THEN scrollY + 1 ELSE scrollY - 1
  /\ scrollTarget' = IF scrollY' = scrollTarget THEN NoScroll ELSE scrollTarget
  /\ navTimer' = TRUE
  /\ Track("scroll", "noop")
  /\ lastTarget' = NoTarget
  /\ UNCHANGED <<sectionHeights, ariaCurrent, lastClicked, userScrolled, unloaded,
                 menuVars, notNavVars>>

\* The user scrolls (wheel, touch, keyboard): a running smooth scroll ends and
\* a scroll event restarts the debounce timer.
UserScroll ==
  \E y \in {scrollY - 1, scrollY + 1} :
    /\ ~unloaded
    /\ y \in 0..MaxScroll
    /\ scrollY' = y
    /\ scrollTarget' = NoScroll
    /\ navTimer' = TRUE
    /\ userScrolled' = TRUE
    /\ Track("userScroll", "noop")
    /\ lastTarget' = NoTarget
    /\ UNCHANGED <<sectionHeights, ariaCurrent, lastClicked, unloaded,
                   menuVars, notNavVars>>

\* The debounce timer fires 150 ms after the last scroll event.
NavDebounceFire ==
  /\ ~unloaded
  /\ navTimer
  /\ navTimer' = FALSE
  /\ ariaCurrent' = updateActiveNav
  /\ Track("navDebounce", "noop")
  /\ lastTarget' = NoTarget
  /\ UNCHANGED <<sectionHeights, scrollY, scrollTarget, lastClicked, userScrolled,
                 unloaded, menuVars, notNavVars>>

\* click on the hamburger button, keydown on the page
NavHamburgerClick == ~unloaded /\ HamburgerClick

NavKeyDown == ~unloaded /\ KeyDown

\* The page is unloaded: the unload listener removes the active class of the
\* nav.  No event reaches the page afterwards.
Unload ==
  /\ initPc = InitDone
  /\ ~unloaded
  /\ unloaded' = TRUE
  /\ navActive' = FALSE
  /\ Track("unload", "noop")
  /\ lastTarget' = NoTarget
  /\ UNCHANGED <<hamburgerExpanded, sectionHeights, ariaCurrent, scrollY,
                 scrollTarget, navTimer, lastClicked, userScrolled, notNavVars>>

NextNav ==
  \/ NavHamburgerClick
  \/ NavKeyDown
  \/ NavLinkClick
  \/ SmoothScrollStep
  \/ UserScroll
  \/ NavDebounceFire
  \/ Unload

SpecNav == NavInit /\ [][NextNav]_vars

(***************************************************************************)
(* Events of the lazy images (initLazyLoading).                            *)
(***************************************************************************)

\* The page with its lazy images, after init() has run.
LazyInit ==
  /\ imageArray = Gallery(1, 0)
  /\ FreshWidgets
  /\ InitSucceeded
  /\ FormFresh({}, {})
  /\ NavFresh(<<>>, {})
  /\ \E n \in 1..MaxLazyImages :
       \E D \in [1..n -> BOOLEAN], I \in SUBSET (1..n), supported \in BOOLEAN :
         LazyFresh(D, I, supported)

notLazyVars == <<widgetVars, initVars, formVars, navVars>>

LazyImages == DOMAIN dataSrc

\* The images the callback can write.
LazyState ==
  [dataSrc |-> dataSrc, imgSrc |-> imgSrc, imgVisible |-> imgVisible,
   observed |-> observed, loads |-> loads]

\* Mutant of ProcessEntry: data-src is not deleted after the load.
ProcessEntryKeepsDataSrc(st, entry) ==
  LET img == entry[1] IN
    IF entry[2]
    THEN [st EXCEPT
            !.imgSrc = IF st.dataSrc[img] THEN [@ EXCEPT ![img] = "deferred"] ELSE @,
            !.loads = IF st.dataSrc[img] THEN [@ EXCEPT ![img] = @ + 1] ELSE @,
            !.imgVisible = [@ EXCEPT ![img] = TRUE],
            !.observed = @ \ {img}]
    ELSE st

\* The body of the callback for one entry <<target, isIntersecting>>.
ProcessEntry(st, entry) ==
  LET img == entry[1] IN
    IF entry[2]
    THEN [st EXCEPT
            !.imgSrc = IF st.dataSrc[img] THEN [@ EXCEPT ![img] = "deferred"] ELSE @,
            !.loads = IF st.dataSrc[img] THEN [@ EXCEPT ![img] = @ + 1] ELSE @,
            !.dataSrc = [@ EXCEPT ![img] = FALSE],
            !.imgVisible = [@ EXCEPT ![img] = TRUE],
            !.observed = @ \ {img}]
    ELSE st

\* entries.forEach(...)
RECURSIVE ProcessEntries(_, _)
ProcessEntries(st, entries) ==
  IF entries = <<>> THEN st
  ELSE ProcessEntries(ProcessEntry(st, Head(entries)), Tail(entries))

\* What the observer remembers of a target: "unknown" before its first
\* computation, then the isIntersecting it computed last.
Status(isIntersecting) == IF isIntersecting THEN "true" ELSE "false"

\* The entries the observer queues in a frame that shows the images `now`:
\* one for each target whose status differs from the one computed before, in
\* the order of the targets.
RECURSIVE NewEntries(_, _)
NewEntries(i, now) ==
  IF i > Len(dataSrc) THEN <<>>
  ELSE (IF i \in observed /\ prevIntersecting[i] # Status(i \in now)
        THEN <<(<<i, i \in now>>)>> ELSE <<>>) \o NewEntries(i + 1, now)

\* The browser renders a frame in which the images `now` intersect the root
\* (after a scroll, a resize or the first layout); the observer computes the
\* intersections of its targets and queues the entries.
Frame ==
  \E now \in SUBSET LazyImages :
    /\ now # intersecting \/ NewEntries(1, now) # <<>>
    /\ Len(ioQueue) + Len(NewEntries(1, now)) <= MaxQueue
    /\ intersecting' = now
    /\ hasIntersected' = hasIntersected \cup now
    /\ ioQueue' = ioQueue \o NewEntries(1, now)
    /\ prevIntersecting' = [i \in LazyImages |->
                              IF i \in observed THEN Status(i \in now)
                              ELSE prevIntersecting[i]]
    /\ UNCHANGED <<ioSupported, dataSrc, imgSrc, imgVisible, observed, loads,
                   notLazyVars>>

\* The observer delivers its queued entries to the callback.
DeliverEntries ==
  /\ ioQueue # <<>>
  /\ ioQueue' = <<>>
  /\ dataSrc' = ProcessEntries(LazyState, ioQueue).dataSrc
  /\ imgSrc' = ProcessEntries(LazyState, ioQueue).imgSrc
  /\ imgVisible' = ProcessEntries(LazyState, ioQueue).imgVisible
  /\ observed' = ProcessEntries(LazyState, ioQueue).observed
  /\ loads' = ProcessEntries(LazyState, ioQueue).loads
  /\ UNCHANGED <<ioSupported, intersecting, prevIntersecting, hasIntersected,
                 notLazyVars>>

NextLazy ==
  \/ Frame
  \/ DeliverEntries

SpecLazy == LazyInit /\ [][NextLazy]_vars

(***************************************************************************)
(* Type invariant.                                                         *)
(***************************************************************************)
TypeOK ==
  /\ N \in 1..MaxImages
  /\ \A k \in 1..N : imageArray[k].figure \in FigureKinds
  /\ currentIndex \in 0..(N - 1)
  /\ lightboxActive \in BOOLEAN
  /\ lightboxAriaHidden \in {"true", "false"}
  /\ bodyOverflow \in {"", "hidden"}
  /\ activeElement \in FocusTargets
  /\ hamburgerExpanded \in {"true", "false"}
  /\ navActive \in BOOLEAN
  /\ lastOp \in {"noop", "open", "close", "next", "prev"}
  /\ runLen \in 1..N
  /\ runStart \in 0..(N - 1)
  /\ runOpen \in BOOLEAN
  /\ menuBefore \in BOOLEAN
  /\ lastTarget \in {NoTarget} \cup 0..(N - 1)
  /\ initPc = InitDone
  /\ lightboxBuilt /\ menuBuilt

(***************************************************************************)
(* Properties of the lightbox controller.                                  *)
(***************************************************************************)

\* The gallery entry the script's currentIndex designates.
CurrentEntry == imageArray[currentIndex + 1]

\* The last event ran an operation exactly once, so that runStart and
\* runOpen describe the state just before that event.
SingleStep == runLen = 1

\* C1: whenever the viewer is open, currentIndex is an integer in [0, n-1].
C1_OpenIndexValid ==
  lightboxActive => (currentIndex \in Int /\ 0 <= currentIndex /\ currentIndex <= N - 1)

C1_Witness ==
  /\ lightboxActive
  /\ N >= 2
  /\ lastEvent = "ArrowLeft"
  /\ SingleStep /\ runOpen /\ runStart = 0
  /\ currentIndex = N - 1

\* C2: next() from Open(i) yields Open((i + 1) mod n); at the last index
\* n - 1 it lands on index 0.
C2_NextAdvances ==
  [][ (lightboxActive /\ lastOp' = "next")
        => /\ lightboxActive'
           /\ currentIndex' = (currentIndex + 1) % N
           /\ (currentIndex = N - 1 => currentIndex' = 0) ]_vars

C2_Witness ==
  /\ lastOp = "next"
  /\ SingleStep /\ runOpen /\ runStart = N - 1
  /\ N >= 2
  /\ lightboxActive
  /\ currentIndex = 0

\* C3: previous() from Open(i) yields Open((i - 1 + n) mod n); at index 0 it
\* lands on index n - 1.
C3_PrevRetreats ==
  [][ (lightboxActive /\ lastOp' = "prev")
        => /\ lightboxActive'
           /\ currentIndex' = (currentIndex - 1 + N) % N
           /\ (currentIndex = 0 => currentIndex' = N - 1) ]_vars

C3_Witness ==
  /\ lastOp = "prev"
  /\ lastEvent = "prevClick"
  /\ SingleStep /\ runOpen /\ runStart = 0
  /\ N >= 2
  /\ lightboxActive
  /\ currentIndex = N - 1

\* C4: starting at Open(i), n calls of next() in a row return to Open(i),
\* and the viewer is open after each of them.
C4_FullCycle ==
  (lastOp = "next" /\ runOpen)
    => /\ lightboxActive
       /\ (runLen = N => currentIndex = runStart)

C4_Witness ==
  /\ lastOp = "next"
  /\ runOpen
  /\ N >= 3
  /\ runLen = N
  /\ runStart = 1
  /\ currentIndex = 1
  /\ lightboxActive

C6_CloseClearsImage ==
  (lastOp = "close" /\ SingleStep /\ runOpen)
    => /\ ~lightboxActive
       /\ lightboxImageSrc = EmptySrc
       /\ lightboxImageAlt = ""
       /\ lightboxCaptionText = ""
       /\ ~ValidIndex(currentIndex)

\* C6 (amended): a closed viewer is hidden and its index is a number of the
\* gallery; close() hides the viewer and restores the page scroll, and leaves
\* the rendered source, alt, caption and currentIndex as they were.
C6_CloseKeepsImage ==
  /\ [](~lightboxActive => (lightboxAriaHidden = "true" /\ bodyOverflow = ""
                             /\ ValidIndex(currentIndex)))
  /\ [][ lastOp' = "close"
           => /\ ~lightboxActive'
              /\ lightboxAriaHidden' = "true"
              /\ bodyOverflow' = ""
              /\ UNCHANGED <<renderedVars, currentIndex>> ]_vars

C6_Witness ==
  /\ lastOp = "close"
  /\ SingleStep /\ runOpen
  /\ ~lightboxActive
  /\ currentIndex = 1
  /\ lightboxImageSrc = ResolveURL(CurrentEntry.src)
  /\ lightboxImageAlt = CurrentEntry.alt

\* C7: close() is idempotent: on a viewer that is already closed, for one by
\* a close() just before, it changes nothing of the viewer state (active
\* class, aria-hidden, scroll lock, index, rendered attributes).
C7_CloseIdempotent ==
  [][ (~lightboxActive /\ lastOp' = "close") => UNCHANGED viewerVars ]_vars

C7_Witness ==
  /\ lastOp = "close"
  /\ runLen >= 2
  /\ runOpen
  /\ ~lightboxActive
  /\ lightboxAriaHidden = "true"
  /\ bodyOverflow = ""

C9_IndicatorsAgree ==
  /\ lightboxActive <=> (lightboxAriaHidden = "false")
  /\ lightboxActive <=> (bodyOverflow = "hidden")
  /\ lastOp = "open" => lightboxActive
  /\ lastOp = "close" => ~lightboxActive

C9_Witness ==
  /\ lastOp = "close"
  /\ SingleStep /\ runOpen
  /\ lastEvent = "Escape"
  /\ ~lightboxActive
  /\ lightboxAriaHidden = "true"
  /\ bodyOverflow = ""

\* C10: immediately after a gallery image has opened the closed viewer, by
\* click or by Enter or Space, the focus is on the close button.
C10_OpenFocusesClose ==
  (lastEvent \in {"imgClick", "imgEnter", "imgSpace"} /\ SingleStep /\ ~runOpen)
    => (lightboxActive /\ activeElement = CloseBtn)

C10_Witness ==
  /\ lastEvent = "imgSpace"
  /\ SingleStep /\ ~runOpen
  /\ lightboxActive
  /\ currentIndex = 1
  /\ activeElement = CloseBtn

\* C11: k next events in a row on a viewer open at index i are k transitions:
\* after the k-th the viewer is open at (i + k) mod n.
C11_NoCoalescing ==
  (lastOp = "next" /\ runOpen)
    => /\ lightboxActive
       /\ currentIndex = (runStart + runLen) % N

C11_Witness ==
  /\ lastOp = "next"
  /\ lastEvent = "ArrowRight"
  /\ runOpen
  /\ N = 3
  /\ runStart = 2
  /\ runLen = 2
  /\ currentIndex = 1

\* C13 (as claimed): while the viewer is open the page scroll is locked and
\* the keyboard focus is on no element of the underlying page.
C13_PageUnreachableWhileOpen ==
  lightboxActive
    => /\ bodyOverflow = "hidden"
       /\ activeElement[1] \notin {"img", "hamburger"}

\* The two states of the specified machine: <<"Closed">> and <<"Open", i>>.
ViewerState == IF lightboxActive THEN <<"Open", currentIndex>> ELSE <<"Closed">>

\* C14 (as claimed): every step is a transition of the specified machine:
\* Closed --open(i)--> Open(i), Open(i) --close--> Closed,
\* Open(i) --next--> Open((i+1) mod n), Open(i) --previous--> Open((i-1+n) mod n),
\* or leaves the state of the machine as it is.
C14_TwoStateMachine ==
  [][ \/ ViewerState' = ViewerState
      \/ /\ ~lightboxActive
         /\ lastOp' = "open"
         /\ ViewerState' = <<"Open", lastTarget'>>
      \/ /\ lightboxActive
         /\ lastOp' = "close"
         /\ ViewerState' = <<"Closed">>
      \/ /\ lightboxActive
         /\ lastOp' = "next"
         /\ ViewerState' = <<"Open", (currentIndex + 1) % N>>
      \/ /\ lightboxActive
         /\ lastOp' = "prev"
         /\ ViewerState' = <<"Open", (currentIndex - 1 + N) % N>> ]_vars

\* The viewer state that shows gallery entry i.
OpenStateOf(i) ==
  <<i, TRUE, "false", "hidden",
    ResolveURL(imageArray[i + 1].src), imageArray[i + 1].alt,
    CaptionOf(imageArray[i + 1])>>

\* C15: the entry points of one operation give the same result: click, Enter
\* and Space on image i give the viewer state of entry i, in any state; on an
\* open viewer the close button, the overlay and Escape give the same closed
\* state, the prev button and ArrowLeft the state of the previous entry, the
\* next button and ArrowRight the state of the next entry.
C15_EntryPointsAgree ==
  [][ /\ lastEvent' \in {"imgClick", "imgEnter", "imgSpace"}
           => /\ viewerVars' = OpenStateOf(lastTarget')
              /\ activeElement' = CloseBtn
      /\ (lightboxActive /\ lastEvent' \in {"closeClick", "overlayClick", "Escape"})
           => /\ viewerVars' = <<currentIndex, FALSE, "true", "", lightboxImageSrc,
                                 lightboxImageAlt, lightboxCaptionText>>
              /\ activeElement' = activeElement
      /\ (lightboxActive /\ lastEvent' \in {"prevClick", "ArrowLeft"})
           => /\ viewerVars' = OpenStateOf((currentIndex - 1 + N) % N)
              /\ activeElement' = CloseBtn
      /\ (lightboxActive /\ lastEvent' \in {"nextClick", "ArrowRight"})
           => /\ viewerVars' = OpenStateOf((currentIndex + 1) % N)
              /\ activeElement' = CloseBtn ]_vars

C15_Witness ==
  /\ lastEvent = "overlayClick"
  /\ SingleStep /\ runOpen
  /\ ~lightboxActive
  /\ N >= 2
  /\ currentIndex = 1
  /\ navActive

C12_InitIsolated ==
  initPc = InitDone
    => \A k \in 1..Len(Features) :
         Features[k] \notin throwing => Features[k] \in initialized

\* C17: on a page without gallery images the controller does not activate:
\* no lightbox is built, no listener of it ever runs, the viewer never opens
\* and the page scroll is never locked.
C17_EmptyGalleryInactive ==
  N = 0
    => /\ ~lightboxBuilt
       /\ ~lightboxActive
       /\ bodyOverflow = ""
       /\ lastOp = "noop"
       /\ activeElement \in {Body, Hamburger}

C17_Witness ==
  /\ N = 0
  /\ initPc = InitDone
  /\ "gallery" \in initialized
  /\ lastEvent = "ArrowRight"
  /\ navActive
  /\ ~lightboxBuilt

(***************************************************************************)
(* Properties of the contact form.                                         *)
(***************************************************************************)

\* What a submit activation can change, the history of the activation aside.
formState == <<fieldValue, fieldError, inputTimers, statusText, statusClass,
               buttonVars, inFlight, outcomes>>

\* C18: at most one submission is in flight at any time; a submit activation
\* that arrives while a submission is pending changes nothing, and a burst of
\* activations ends with exactly one success outcome.
C18_OneSubmissionInFlight ==
  /\ [](/\ inFlight <= 1
        /\ outcomes <= 1
        /\ inFlight = 1 => outcomes = 0
        /\ lastFormEvent = "submitBlocked" => inFlight = 1
        /\ lastFormEvent = "complete" => (inFlight = 0 /\ outcomes = 1))
  /\ [][lastFormEvent' = "submitBlocked" => UNCHANGED formState]_vars

C18_Witness ==
  /\ lastFormEvent = "complete"
  /\ ignored
  /\ outcomes = 1
  /\ inFlight = 0
  /\ statusText = StatusSuccess

\* The button in its loading state, and released from it.
ButtonLoading == submitDisabled /\ submitBusy = "true" /\ submitLoading

ButtonReleased == ~submitDisabled /\ submitBusy = "false" /\ ~submitLoading

\* C19: while a submission is pending the submit button is disabled, has
\* aria-busy "true" and the loading class; every started submission
\* completes, and then the button is enabled, aria-busy is "false" and the
\* loading class is gone.
C19_LoadingUntilComplete ==
  /\ [](inFlight > 0 => ButtonLoading)
  /\ [][inFlight' < inFlight => ButtonReleased']_vars
  /\ (inFlight > 0) ~> (inFlight = 0 /\ ButtonReleased)

C19_Witness ==
  /\ lastFormEvent = "complete"
  /\ inFlight = 0
  /\ ButtonReleased
  /\ statusClass = "form-status success"

\* C20: a submit handled while some required field fails validation sets the
\* error status with the error class, leaves the button out of the loading
\* state, leaves the field values alone and starts no submission, so that no
\* success outcome can follow from it.
C20_InvalidSubmitRejected ==
  [][(/\ lastFormEvent' = "submit"
      /\ \E f \in fields : ~Validation(f, fieldValue[f]).isValid)
       => /\ statusText' = StatusInvalid
          /\ statusClass' = "form-status error"
          /\ ~submitDisabled' /\ ~submitLoading' /\ submitBusy' # "true"
          /\ fieldValue' = fieldValue
          /\ inFlight' = 0
          /\ outcomes' = outcomes]_vars

C20_Witness ==
  /\ lastFormEvent = "submit"
  /\ statusText = StatusInvalid
  /\ statusClass = "form-status error"
  /\ inFlight = 0
  /\ ~submitDisabled
  /\ \E f, g \in fields :
       /\ OrderOf(f) < OrderOf(g)
       /\ fieldValue[f] # EmptyText
       /\ ~Validation(f, fieldValue[f]).isValid
       /\ Validation(g, fieldValue[g]).isValid

\* The error display of a field marked invalid with `message`, and of a
\* field marked valid.
ErrorShown(message) == [text |-> message, aria |-> "true", cls |-> TRUE]

ErrorCleared == [text |-> "", aria |-> "false", cls |-> FALSE]

\* The error display `err` of field f agrees with the validation of its value.
MarkedAsValidated(f, err) ==
  IF Validation(f, fieldValue[f]).isValid
  THEN err = ErrorCleared
  ELSE err = ErrorShown(Validation(f, fieldValue[f]).errorMessage)

\* C21: after a blur the validated field, and after a submit every required
\* field, has the error class, aria-invalid "true" and its error message when
\* its validation fails, and an empty error text, no error class and
\* aria-invalid "false" when its validation succeeds.
C21_FieldMarkedAsValidated ==
  [][/\ lastFormEvent' = "blur"
          => MarkedAsValidated(lastField', fieldError'[lastField'])
     /\ lastFormEvent' = "submit"
          => \A f \in fields : MarkedAsValidated(f, fieldError'[f])]_vars

\* C22: the step that completes a submission leaves the success message with
\* the success class in the status, every field empty and no field with an
\* error text, the error class or aria-invalid "true".
C22_CompletionClearsForm ==
  [][lastFormEvent' = "complete"
       => /\ statusText' = StatusSuccess
          /\ statusClass' = "form-status success"
          /\ \A f \in fields :
               /\ fieldValue'[f] = EmptyText
               /\ fieldError'[f].text = ""
               /\ ~fieldError'[f].cls
               /\ fieldError'[f].aria # "true"]_vars

C22_Witness ==
  /\ lastFormEvent = "complete"
  /\ erredInFlight
  /\ statusText = StatusSuccess
  /\ statusClass = "form-status success"
  /\ \A f \in fields : fieldValue[f] = EmptyText /\ fieldError[f] = ErrorCleared

(***************************************************************************)
(* Properties of the mobile menu and of the navigation highlighting.       *)
(***************************************************************************)

MenuClosed == hamburgerExpanded = "false" /\ ~navActive

\* C23: in every reachable state aria-expanded of the hamburger is "true"
\* exactly when the nav has the active class; both start closed, and a click
\* on the hamburger flips both.
C23_MenuIndicatorsAgree ==
  /\ MenuClosed
  /\ [](hamburgerExpanded = "true" <=> navActive)
  /\ [][lastEvent' = "hamburgerClick"
          => /\ navActive' = ~navActive
             /\ hamburgerExpanded' = IF hamburgerExpanded = "true"
                                     THEN "false" ELSE "true"]_vars

\* C24: a click on a link of the nav, and an Escape key press, leave the menu
\* closed whatever its state was; an Escape on a closed menu leaves the menu
\* and the navigation as they were.
C24_LinkAndEscapeCloseMenu ==
  [][/\ lastEvent' \in {"navLinkClick", "Escape"} => MenuClosed'
     /\ (lastEvent' = "Escape" /\ MenuClosed)
          => UNCHANGED <<menuVars, ariaCurrent, scrollY, scrollTarget, navTimer>>]_vars

C24_Witness ==
  /\ lastEvent = "navLinkClick"
  /\ menuBefore
  /\ MenuClosed

NavAtRest == scrollTarget = NoScroll /\ ~navTimer

\* C26: once the smooth scrolls have ended and every debounced update has
\* fired, and the user has not scrolled since the last click, the clicked
\* link is the one with aria-current and its section is in the viewport.
C26_LastClickedWins ==
  (lastClicked \in Sections /\ ~userScrolled /\ NavAtRest)
    => /\ ariaCurrent = {lastClicked}
       /\ InViewport(lastClicked)

(***************************************************************************)
(* Properties of the lazy images.                                          *)
(***************************************************************************)

\* The queued entries report image i as intersecting.
ReportedIntersecting(i) ==
  \E k \in 1..Len(ioQueue) : ioQueue[k] = <<i, TRUE>>

C28_MessageBounds ==
  \A f \in fields \cap {"message"} :
    LET L == fieldValue[f].len
        result == Validation(f, fieldValue[f])
    IN /\ result.isValid <=> (10 <= L /\ L <= 1000)
       /\ L = 0 => result.errorMessage = "This field is required"
       /\ (0 < L /\ L < 10)
            => result.errorMessage = "Message must be at least 10 characters"
       /\ L > 1000
            => result.errorMessage = "Message must not exceed 1000 characters"
       /\ (lastFormEvent = "blur" /\ f \in errorElements)
            => /\ fieldError[f].text = result.errorMessage
               /\ fieldError[f].cls = ~result.isValid

C28_Witness ==
  /\ fields = {"message"}
  /\ lastFormEvent = "blur"
  /\ fieldValue["message"].len = 1000
  /\ fieldValue["message"].pad
  /\ fieldError["message"] = ErrorCleared

(***************************************************************************)
(* C29.  showNext and showPrev render through showLightbox, whose last      *)
(* statement is closeBtn.focus().                                          *)
(***************************************************************************)

\* C29: right after an open, next or previous transition that leaves the
\* viewer open, whether it came from a key or from a click on the previous or
\* next control, the focused element is the close button.
C29_RenderFocusesClose ==
  (lastOp \in {"open", "next", "prev"} /\ lightboxActive)
    => activeElement = CloseBtn

C29_Witness ==
  /\ lastEvent = "prevClick"
  /\ runOpen /\ runLen = 2
  /\ N >= 2
  /\ lightboxActive
  /\ activeElement = CloseBtn

(***************************************************************************)
(* C30.  The two keydown listeners on document, as functions of the part   *)
(* of the page they read and write.                                        *)
(***************************************************************************)

\* What the two Escape listeners read and write.
EscapeState ==
  [expanded |-> hamburgerExpanded, nav |-> navActive,
   active |-> lightboxActive, hidden |-> lightboxAriaHidden,
   overflow |-> bodyOverflow]

\* The Escape branch of the listener of the mobile menu.
menuEscape(st) ==
  IF st.nav
  THEN [st EXCEPT !.expanded = "false", !.nav = FALSE]
  ELSE st

\* The Escape branch of the listener of the lightbox.
lightboxEscape(st) ==
  IF st.active
  THEN [st EXCEPT !.active = FALSE, !.hidden = "true", !.overflow = ""]
  ELSE st

SameMenu(s, t) == s.expanded = t.expanded /\ s.nav = t.nav

SameLightbox(s, t) ==
  s.active = t.active /\ s.hidden = t.hidden /\ s.overflow = t.overflow

\* C30: an Escape key press ends in the state both orders of the two
\* listeners produce; with the menu and the viewer both open it closes both;
\* the menu listener leaves the lightbox as it was and the lightbox listener
\* leaves the menu as it was, and a closed viewer or a closed menu stays
\* untouched.
C30_EscapeListenersIndependent ==
  [][lastEvent' = "Escape" =>
       LET st == EscapeState
           menuFirst == lightboxEscape(menuEscape(st))
           lightboxFirst == menuEscape(lightboxEscape(st))
       IN /\ menuFirst = lightboxFirst
          /\ EscapeState' = menuFirst
          /\ (navActive /\ lightboxActive)
               => /\ ~navActive' /\ hamburgerExpanded' = "false"
                  /\ ~lightboxActive' /\ lightboxAriaHidden' = "true"
                  /\ bodyOverflow' = ""
          /\ \A s \in {st, lightboxEscape(st)} : SameLightbox(menuEscape(s), s)
          /\ \A s \in {st, menuEscape(st)} : SameMenu(lightboxEscape(s), s)
          /\ ~lightboxActive => UNCHANGED viewerVars
          /\ ~navActive => UNCHANGED menuVars
          /\ UNCHANGED <<currentIndex, renderedVars, activeElement>>]_vars

C30_Witness ==
  /\ lastEvent = "Escape"
  /\ SingleStep /\ runOpen /\ menuBefore
  /\ ~lightboxActive /\ lightboxAriaHidden = "true" /\ bodyOverflow = ""
  /\ ~navActive /\ hamburgerExpanded = "false"

====
